---- MODULE Spec2Model ----
(***************************************************************************)
(* Tilesheet Composer (scripts/combinesheets.py): the editor's state, its  *)
(* pygame event handlers and the surface operations they call.             *)
(*                                                                         *)
(* A surface is a record [w, h, px] with px a function from <<x, y>> to an *)
(* RGBA pixel <<r, g, b, a>>.  An optional value (Python None) is the      *)
(* empty sequence; a present value x is <<x>>.                             *)
(***************************************************************************)
EXTENDS Integers, Sequences, FiniteSets, TLC

\* ------------------------------------------------------------- constants
\* Tile edge in pixels.  The program uses 16; the model scales it down so
\* that pixel grids stay enumerable.  Every image below is sized from it.
TILE_SIZE == 2
PALETTE_COLS == 8
PALETTE_THUMB == 32
\* Largest palette_scroll the wheel-down event is explored to.
MaxScroll == 1
\* Largest number of palette sheets the add-sheet event is explored to.
MaxSheets == 2

None == <<>>
Some(x) == <<x>>
Val(o) == o[1]

Min(a, b) == IF a < b THEN a ELSE b
Max(a, b) == IF a > b THEN a ELSE b

\* --------------------------------------------------------------- pygame
Transparent == <<0, 0, 0, 0>>

Rect(x, y, w, h) == [x |-> x, y |-> y, w |-> w, h |-> h]

\* pygame.Surface((w, h), pygame.SRCALPHA): every pixel (0,0,0,0).
Surface(w, h) ==
  [w |-> w, h |-> h, px |-> [p \in (0 .. w - 1) \X (0 .. h - 1) |-> Transparent]]

\* One colour channel of pygame's per-pixel-alpha blend
\* (((sC - dC) * sA + sC) >> 8) + dC; >> is an arithmetic shift (floor).
BlendComp(sC, dC, sA) == (((sC - dC) * sA + sC) \div 256) + dC

\* Blend of source pixel s over destination pixel d for two SRCALPHA
\* surfaces: a destination of alpha 0 takes the source pixel as it is.
Blend(s, d) ==
  IF d[4] # 0
    THEN << BlendComp(s[1], d[1], s[4]),
            BlendComp(s[2], d[2], s[4]),
            BlendComp(s[3], d[3], s[4]),
            s[4] + d[4] - ((s[4] * d[4]) \div 255) >>
    ELSE s

\* dst.blit(src, dest, area): area (origin >= 0) is clipped to src, the
\* target rectangle to dst; pixels are blended, not copied.
Blit(dst, src, dest, area) ==
  LET sw == Min(area.x + area.w, src.w) - area.x
      sh == Min(area.y + area.h, src.h) - area.y
  IN [dst EXCEPT !.px =
        [p \in DOMAIN dst.px |->
           IF /\ dest[1] <= p[1] /\ p[1] < dest[1] + sw
              /\ dest[2] <= p[2] /\ p[2] < dest[2] + sh
             THEN Blend(src.px[<<p[1] - dest[1] + area.x, p[2] - dest[2] + area.y>>],
                        dst.px[p])
             ELSE dst.px[p]]]

\* dst.blit(src, dest) with the whole source as area.
BlitAll(dst, src, dest) == Blit(dst, src, dest, Rect(0, 0, src.w, src.h))

\* surf.fill(color, rect): every pixel of rect (clipped) becomes color.
Fill(surf, color, rect) ==
  [surf EXCEPT !.px =
     [p \in DOMAIN surf.px |->
        IF /\ rect.x <= p[1] /\ p[1] < rect.x + rect.w
           /\ rect.y <= p[2] /\ p[2] < rect.y + rect.h
          THEN color
          ELSE surf.px[p]]]

SetMin(S) == CHOOSE m \in S : \A n \in S : m <= n
SetMax(S) == CHOOSE m \in S : \A n \in S : m >= n

\* surf.get_bounding_rect(): the smallest rectangle holding every pixel of
\* alpha >= 1, of size 0 when there is none.
get_bounding_rect(surf) ==
  LET S == {p \in DOMAIN surf.px : surf.px[p][4] >= 1}
      xs == {p[1] : p \in S}
      ys == {p[2] : p \in S}
  IN IF S = {}
       THEN Rect(0, 0, 0, 0)
       ELSE Rect(SetMin(xs), SetMin(ys),
                 SetMax(xs) - SetMin(xs) + 1, SetMax(ys) - SetMin(ys) + 1)

\* ------------------------------------------------------- image files
Red == <<200, 0, 0, 255>>
Blue == <<0, 0, 200, 255>>
Green == <<0, 200, 0, 255>>
Ghost == <<9, 9, 9, 0>>

\* Two cells: the left one sparse (one opaque and one coloured alpha-0
\* pixel, the rest transparent), the right one opaque.
SparsePixel(x, y) ==
  IF x >= TILE_SIZE THEN Blue
  ELSE IF x = TILE_SIZE - 1 /\ y = 0 THEN Red
  ELSE IF x = 0 /\ y = 0 THEN Ghost
  ELSE Transparent

GreenPixel(x, y) == Green

\* Tiles of a 3 x 3 sheet: opaque, coloured by the parity of the tile.
NinePixel(x, y) ==
  IF ((x \div TILE_SIZE) + (y \div TILE_SIZE)) % 2 = 0 THEN Green ELSE Red

BluePixel(x, y) == Blue

\* Every pixel differs from every other: the colour holds the position
\* and the alpha runs through opaque, translucent and 0.
CoordsPixel(x, y) ==
  << x, y, 7, CASE (x + y) % 3 = 0 -> 255 [] (x + y) % 3 = 1 -> 128 [] OTHER -> 0 >>

ImagePixel(name, x, y) ==
  CASE name = "sparse" -> SparsePixel(x, y)
    [] name = "coords" -> CoordsPixel(x, y)
    [] name = "green" -> GreenPixel(x, y)
    [] name = "nine" -> NinePixel(x, y)
    [] OTHER -> BluePixel(x, y)

\* A decoded image of w x h pixels.
Image(name, w, h) ==
  [w |-> w, h |-> h,
   px |-> [p \in (0 .. w - 1) \X (0 .. h - 1) |-> ImagePixel(name, p[1], p[2])]]

FileNames == {"base.png", "tiles.png", "bad.png"}

\* The files the dialogs can return, as pygame.image.load decodes them
\* (None: load raises).  Three directories are explored.
Files(base, tiles) ==
  [f \in FileNames |->
     CASE f = "base.png" -> Some(base)
       [] f = "tiles.png" -> Some(tiles)
       [] OTHER -> None]

\* A one-cell base image and a one-tile sheet.
DiskSmall ==
  Files(Image("blue", TILE_SIZE, TILE_SIZE), Image("green", TILE_SIZE, TILE_SIZE))

\* A two-cell base image and a one-tile sheet.
DiskEdit ==
  Files(Image("sparse", 2 * TILE_SIZE, TILE_SIZE), Image("green", TILE_SIZE, TILE_SIZE))

\* A one-cell base image and a sheet of 3 x 3 tiles.
DiskPalette ==
  Files(Image("blue", TILE_SIZE, TILE_SIZE), Image("nine", 3 * TILE_SIZE, 3 * TILE_SIZE))

\* Image widths and heights explored for slicing: below, at and above
\* one and two tiles.
ImageSizes == 1 .. 2 * TILE_SIZE + 1

\* A base image and a sheet of w x h pixels, every pixel distinct.
DiskSized(w, h) == Files(Image("coords", w, h), Image("coords", w, h))

\* Paths the add-sheet dialog is explored with.
SheetFiles == {"tiles.png", "bad.png"}

\* ------------------------------------------------------------ TileSheet
\* A slicing that walks the sheet column by column.
slice_tiles_column_major(surface, cols, rows, tile_size) ==
  [i \in 1 .. rows * cols |->
     LET x == (i - 1) \div rows
         y == (i - 1) % rows
     IN Blit(Surface(tile_size, tile_size), surface, <<0, 0>>,
             Rect(x * tile_size, y * tile_size, tile_size, tile_size))]

\* TileSheet._slice_tiles: rows * cols tiles in row-major order.
slice_tiles(surface, cols, rows, tile_size) ==
  [i \in 1 .. rows * cols |->
     LET y == (i - 1) \div cols
         x == (i - 1) % cols
     IN Blit(Surface(tile_size, tile_size), surface, <<0, 0>>,
             Rect(x * tile_size, y * tile_size, tile_size, tile_size))]

\* TileSheet.__init__ on a decoded image (convert_alpha keeps the pixels).
TileSheet(path, image, tile_size) ==
  LET cols == Max(1, image.w \div tile_size)
      rows == Max(1, image.h \div tile_size)
  IN [path |-> path, tile_size |-> tile_size, surface |-> image,
      width |-> image.w, height |-> image.h, cols |-> cols, rows |-> rows,
      tiles |-> slice_tiles(image, cols, rows, tile_size)]

\* ---------------------------------------------------------------- state
VARIABLES
  disk,                  \* the image files on disk (never written)
  base_sheet,            \* self.base_sheet: None or the base TileSheet
  canvas_surface,        \* self.canvas_surface: None or the canvas
  palette_sheets,        \* self.palette_sheets: sequence of TileSheet
  palette_index,         \* self.palette_index
  selected_tile,         \* self.selected_tile: None or a palette tile object
  canvas_selected_tile,  \* self.canvas_selected_tile: None or the held tile
  canvas_selected_orig,  \* self.canvas_selected_orig: None or <<x, y>>
  canvas_dragging,       \* self.canvas_dragging
  canvas_drag_mouse,     \* self.canvas_drag_mouse
  grid_visible,          \* self.grid_visible
  palette_scroll,        \* self.palette_scroll
  running,               \* self.running
  win_size,              \* <<self.win_w, self.win_h>>
  note                   \* history: what the last handled event did

pvars ==
  << disk, base_sheet, canvas_surface, palette_sheets, palette_index,
     selected_tile, canvas_selected_tile, canvas_selected_orig,
     canvas_dragging, canvas_drag_mouse, grid_visible, palette_scroll,
     running, win_size >>

vars == << pvars, note >>

\* A palette tile object is named by its sheet and its place in the sheet:
\* sheets are only ever appended and their tiles never change.
TileRef(s, t) == [sheet |-> s, tile |-> t]
TilePixels(ref) == palette_sheets[ref.sheet].tiles[ref.tile]

\* ---- history variable ---------------------------------------------------
\* kind: the branch the last event took ("none": it changed nothing, or
\* nothing a property below looks back on); at: its pointer position.
\* While a drag that started from Idle has seen nothing but pointer-moves
\* and its closing pointer-up: before is the canvas as it was at pick-up
\* and orig the cell picked up from.
\* out: the surface a successful save handed to pygame.image.save.
Note(kind, at, before, orig) ==
  [kind |-> kind, at |-> at, before |-> before, orig |-> orig, out |-> None]
Plain(kind) == Note(kind, None, None, None)
Exported(kind, surf) == [Plain(kind) EXCEPT !.out = Some(surf)]
PlainAt(kind, pos) == Note(kind, Some(pos), None, None)
InCleanDrag == note.kind \in {"pickup", "motion"} /\ note.before # None

\* ----------------------------------------------------------------- Init
\* Composer.__init__, started in a directory holding the files of d.
InitOn(d) ==
  /\ disk = d
  /\ base_sheet = None
  /\ canvas_surface = None
  /\ palette_sheets = <<>>
  /\ palette_index = 0
  /\ selected_tile = None
  /\ canvas_selected_tile = None
  /\ canvas_selected_orig = None
  /\ canvas_dragging = FALSE
  /\ canvas_drag_mouse = <<0, 0>>
  /\ grid_visible = TRUE
  /\ palette_scroll = 0
  /\ running = TRUE
  /\ win_size = <<800, 600>>
  /\ note = Plain("none")

\* ------------------------------------------------------ Composer methods
\* Composer._resize_window_for_canvas: the window size it leaves.
resize_window_for_canvas(canvas, win) ==
  IF canvas = None
    THEN win
    ELSE << Val(canvas).w + (PALETTE_THUMB * PALETTE_COLS + 20),
            Max(Val(canvas).h, 400) >>

\* An open that creates the canvas but never copies the image onto it.
open_base_blank(choice) ==
  IF choice = None \/ disk[Val(choice)] = None
    THEN UNCHANGED << base_sheet, canvas_surface, win_size >>
    ELSE LET ts == TileSheet(Val(choice), Val(disk[Val(choice)]), TILE_SIZE)
             canvas == Surface(ts.width, ts.height)
         IN /\ base_sheet' = Some(ts)
            /\ canvas_surface' = Some(canvas)
            /\ win_size' = resize_window_for_canvas(Some(canvas), win_size)

\* An open that drops the old canvas before it is sure of the new one.
open_base_clears(choice) ==
  IF choice = None
    THEN UNCHANGED << base_sheet, canvas_surface, win_size >>
  ELSE IF disk[Val(choice)] = None
    THEN /\ base_sheet' = None
         /\ canvas_surface' = None
         /\ UNCHANGED win_size
  ELSE LET ts == TileSheet(Val(choice), Val(disk[Val(choice)]), TILE_SIZE)
           canvas == BlitAll(Surface(ts.width, ts.height), ts.surface, <<0, 0>>)
       IN /\ base_sheet' = Some(ts)
          /\ canvas_surface' = Some(canvas)
          /\ win_size' = resize_window_for_canvas(Some(canvas), win_size)

\* Composer.open_base with the dialog's answer (None: cancelled).
open_base(choice) ==
  IF choice = None \/ disk[Val(choice)] = None
    THEN UNCHANGED << base_sheet, canvas_surface, win_size >>
    ELSE LET ts == TileSheet(Val(choice), Val(disk[Val(choice)]), TILE_SIZE)
             canvas == BlitAll(Surface(ts.width, ts.height), ts.surface, <<0, 0>>)
         IN /\ base_sheet' = Some(ts)
            /\ canvas_surface' = Some(canvas)
            /\ win_size' = resize_window_for_canvas(Some(canvas), win_size)

\* A loop in which each decoded sheet replaces the list instead of
\* joining it.
RECURSIVE AppendSheets_replacing(_, _)
AppendSheets_replacing(sheets, paths) ==
  IF paths = <<>>
    THEN sheets
    ELSE AppendSheets_replacing(
           IF disk[Head(paths)] = None
             THEN sheets
             ELSE << TileSheet(Head(paths), Val(disk[Head(paths)]), TILE_SIZE) >>,
           Tail(paths))

\* The loop of Composer.add_palette_sheet: each decodable path appends a
\* sheet, each failing one is reported and skipped.
RECURSIVE AppendSheets(_, _)
AppendSheets(sheets, paths) ==
  IF paths = <<>>
    THEN sheets
    ELSE AppendSheets(
           IF disk[Head(paths)] = None
             THEN sheets
             ELSE Append(sheets, TileSheet(Head(paths), Val(disk[Head(paths)]), TILE_SIZE)),
           Tail(paths))

\* Composer.add_palette_sheet with the dialog's answer (<<>>: cancelled).
add_palette_sheet(paths) ==
  IF paths = <<>>
    THEN UNCHANGED << palette_sheets, palette_index, win_size >>
    ELSE LET sheets == AppendSheets(palette_sheets, paths)
         IN /\ palette_sheets' = sheets
            /\ palette_index' = IF Len(sheets) > 0
                                  THEN Min(palette_index, Len(sheets) - 1)
                                  ELSE palette_index
            /\ win_size' = resize_window_for_canvas(canvas_surface, win_size)

\* The combined tile list built by select_tile_from_palette_coords and
\* draw_palette: every sheet's tiles, in sheet order.
RECURSIVE TilesFrom(_, _)
TilesFrom(sheets, s) ==
  IF s > Len(sheets)
    THEN <<>>
    ELSE [t \in 1 .. Len(sheets[s].tiles) |-> TileRef(s, t)] \o TilesFrom(sheets, s + 1)

CombinedTiles == TilesFrom(palette_sheets, 1)

\* Composer.draw_palette: the rectangle in which the thumbnail of the tile
\* at index i (from 0) of the combined list is drawn, None when the tile
\* is scrolled out above.
thumb_rect(i) ==
  LET canvas_w == IF canvas_surface = None THEN 0 ELSE Val(canvas_surface).w
      x0 == canvas_w + 10
      y0 == 10
      col == i % PALETTE_COLS
      row == (i \div PALETTE_COLS) - palette_scroll
  IN IF row < 0
       THEN None
       ELSE Some(Rect(x0 + col * PALETTE_THUMB, y0 + row * PALETTE_THUMB,
                      PALETTE_THUMB, PALETTE_THUMB))

\* An index that ignores the scroll offset.
palette_idx_unscrolled(mx, my) ==
  LET px == mx - Val(canvas_surface).w - 10
      py == my - 10
      col == px \div PALETTE_THUMB
      row == py \div PALETTE_THUMB
  IN row * PALETTE_COLS + col

\* The index select_tile_from_palette_coords computes for a click.
palette_idx(mx, my) ==
  LET px == mx - Val(canvas_surface).w - 10
      py == my - 10
      col == px \div PALETTE_THUMB
      row == (py \div PALETTE_THUMB) + palette_scroll
  IN row * PALETTE_COLS + col

\* Composer.select_tile_from_palette_coords: [sel: the selection it
\* leaves, ret: its return value].
select_tile_from_palette_coords(mx, my) ==
  IF canvas_surface = None
    THEN [sel |-> selected_tile, ret |-> FALSE]
  ELSE IF mx - Val(canvas_surface).w - 10 < 0 \/ my - 10 < 0
    THEN [sel |-> selected_tile, ret |-> FALSE]
  ELSE IF 0 <= palette_idx(mx, my) /\ palette_idx(mx, my) < Len(CombinedTiles)
    THEN [sel |-> Some(CombinedTiles[palette_idx(mx, my) + 1]), ret |-> TRUE]
  ELSE [sel |-> selected_tile, ret |-> FALSE]

\* A hit-test whose upper bounds are one pixel too generous.
get_canvas_cell_pos_inclusive(mx, my) ==
  IF canvas_surface = None THEN None
  ELSE IF mx < 0 \/ my < 0 THEN None
  ELSE IF mx > Val(canvas_surface).w \/ my > Val(canvas_surface).h THEN None
  ELSE << (mx \div TILE_SIZE) * TILE_SIZE, (my \div TILE_SIZE) * TILE_SIZE >>

\* A hit-test that checks the bounds but does not snap to the tile grid.
get_canvas_cell_pos_unsnapped(mx, my) ==
  IF canvas_surface = None THEN None
  ELSE IF mx < 0 \/ my < 0 THEN None
  ELSE IF mx >= Val(canvas_surface).w \/ my >= Val(canvas_surface).h THEN None
  ELSE << mx, my >>

\* Composer.get_canvas_cell_pos: None or the cell origin <<tx, ty>>.
get_canvas_cell_pos(mx, my) ==
  IF canvas_surface = None THEN None
  ELSE IF mx < 0 \/ my < 0 THEN None
  ELSE IF mx >= Val(canvas_surface).w \/ my >= Val(canvas_surface).h THEN None
  ELSE << (mx \div TILE_SIZE) * TILE_SIZE, (my \div TILE_SIZE) * TILE_SIZE >>

\* A read that ignores the cell origin and always copies the first cell.
get_tile_surface_from_canvas_origin(canvas, tx, ty) ==
  Blit(Surface(TILE_SIZE, TILE_SIZE), canvas, <<0, 0>>,
       Rect(0, 0, TILE_SIZE, TILE_SIZE))

\* Composer.get_tile_surface_from_canvas on a given canvas.
get_tile_surface_from_canvas(canvas, tx, ty) ==
  Blit(Surface(TILE_SIZE, TILE_SIZE), canvas, <<0, 0>>,
       Rect(tx, ty, TILE_SIZE, TILE_SIZE))

\* Composer.is_surface_nonempty
is_surface_nonempty(surf) ==
  LET r == get_bounding_rect(surf) IN r.w > 0 /\ r.h > 0

\* A place that blits at the pointer instead of at the cell origin.
place_tile_on_canvas_unsnapped(mx, my) ==
  IF canvas_surface = None \/ selected_tile = None THEN canvas_surface
  ELSE IF mx < 0 \/ my < 0 THEN canvas_surface
  ELSE IF mx >= Val(canvas_surface).w \/ my >= Val(canvas_surface).h
    THEN canvas_surface
  ELSE Some(BlitAll(Val(canvas_surface), TilePixels(Val(selected_tile)), <<mx, my>>))

\* The body of Composer.place_tile_on_canvas once a canvas and a tile are
\* there: the canvas after the tile is blitted at the cell of (mx, my).
place_tile(canvas, tile, mx, my) ==
  LET tx == (mx \div TILE_SIZE) * TILE_SIZE
      ty == (my \div TILE_SIZE) * TILE_SIZE
  IN IF tx < 0 \/ ty < 0 THEN canvas
     ELSE IF tx >= canvas.w \/ ty >= canvas.h THEN canvas
     ELSE BlitAll(canvas, tile, <<tx, ty>>)

\* Composer.place_tile_on_canvas: the canvas it leaves.
place_tile_on_canvas(mx, my) ==
  IF canvas_surface = None \/ selected_tile = None THEN canvas_surface
  ELSE Some(place_tile(Val(canvas_surface), TilePixels(Val(selected_tile)), mx, my))

\* A fill whose rectangle runs to the right edge of the canvas.
clear_cell_row(canvas, tx, ty) ==
  Fill(canvas, Transparent, Rect(tx, ty, canvas.w - tx, TILE_SIZE))

\* The cell-clearing fill of the erase key and of the pick-up.
clear_cell(canvas, tx, ty) ==
  Fill(canvas, Transparent, Rect(tx, ty, TILE_SIZE, TILE_SIZE))

\* ---------------------------------------------------------------- inputs
CanvasW == IF canvas_surface = None THEN 0 ELSE Val(canvas_surface).w
CanvasH == IF canvas_surface = None THEN 0 ELSE Val(canvas_surface).h

\* Window position inside the thumbnail drawn at palette row r, column c.
SlotPos(r, c) ==
  << CanvasW + 10 + c * PALETTE_THUMB + 1, 10 + r * PALETTE_THUMB + 1 >>

\* A pixel of the first cell, a pixel of the second cell (right of a
\* one-cell canvas) and the first pixel below the canvas.
CanvasPositions ==
  { <<TILE_SIZE - 1, TILE_SIZE - 1>>, <<2 * TILE_SIZE - 1, TILE_SIZE - 1>>,
    <<0, CanvasH>> }

\* Thumbnail slots <<row, column>> clicked: the first two of the first row,
\* the first of the second row and the one right of the eighth column.
PaletteSlots == { <<0, 0>>, <<0, 1>>, <<1, 0>>, <<0, PALETTE_COLS>> }

PalettePositions == { SlotPos(slot[1], slot[2]) : slot \in PaletteSlots }

ClickPositions == CanvasPositions \cup PalettePositions

Buttons == {1, 3, 4, 5}

OpenChoices == {None} \cup {Some(f) : f \in {"base.png", "bad.png"}}

AddChoices ==
  {<<>>} \cup {<<f>> : f \in SheetFiles} \cup {<<f, g>> : f \in SheetFiles, g \in SheetFiles}

\* ------------------------------------------------------- event handlers
\* KEYDOWN K_o
KeyOpenBase(choice) ==
  /\ open_base(choice)
  /\ UNCHANGED << disk, palette_sheets, palette_index, selected_tile,
                  canvas_selected_tile, canvas_selected_orig, canvas_dragging,
                  canvas_drag_mouse, grid_visible, palette_scroll, running >>
  /\ note' = IF choice = None THEN Plain("none")
             ELSE IF disk[Val(choice)] = None THEN Plain("openfail")
             ELSE Plain("open")

\* KEYDOWN K_a
KeyAddSheet(paths) ==
  /\ Len(palette_sheets) + Len(paths) <= MaxSheets
  /\ add_palette_sheet(paths)
  /\ UNCHANGED << disk, base_sheet, canvas_surface, selected_tile,
                  canvas_selected_tile, canvas_selected_orig, canvas_dragging,
                  canvas_drag_mouse, grid_visible, palette_scroll, running >>
  /\ note' = IF paths = <<>> \/ AppendSheets(palette_sheets, paths) = palette_sheets
               THEN Plain("none") ELSE Plain("add")

\* A save that also drops the tile being dragged.
KeySave_ends_drag(answer) ==
  /\ answer \in {"cancel", "saved", "failed"}
  /\ canvas_selected_tile' = None
  /\ canvas_selected_orig' = None
  /\ canvas_dragging' = FALSE
  /\ UNCHANGED << disk, base_sheet, canvas_surface, palette_sheets,
                  palette_index, selected_tile, canvas_drag_mouse,
                  grid_visible, palette_scroll, running, win_size >>
  /\ note' = IF canvas_surface # None /\ answer = "saved"
               THEN Exported("save", Val(canvas_surface))
               ELSE Plain("none")

\* KEYDOWN K_s: save_canvas reads the canvas and writes no editor field,
\* whatever the dialog and the encoder answer.  With a canvas, a path from
\* the dialog and no encoder error, the canvas is what pygame.image.save
\* is given.
KeySave(answer) ==
  /\ answer \in {"cancel", "saved", "failed"}
  /\ UNCHANGED pvars
  /\ note' = IF canvas_surface # None /\ answer = "saved"
               THEN Exported(IF note.kind = "open" THEN "save_after_open" ELSE "save",
                             Val(canvas_surface))
               ELSE Plain("none")

\* KEYDOWN K_z
KeyToggleGrid ==
  /\ grid_visible' = ~grid_visible
  /\ UNCHANGED << disk, base_sheet, canvas_surface, palette_sheets,
                  palette_index, selected_tile, canvas_selected_tile,
                  canvas_selected_orig, canvas_dragging, canvas_drag_mouse,
                  palette_scroll, running, win_size >>
  /\ note' = Plain("grid")

\* KEYDOWN K_ESCAPE, K_q and QUIT
KeyQuit ==
  /\ running' = FALSE
  /\ UNCHANGED << disk, base_sheet, canvas_surface, palette_sheets,
                  palette_index, selected_tile, canvas_selected_tile,
                  canvas_selected_orig, canvas_dragging, canvas_drag_mouse,
                  grid_visible, palette_scroll, win_size >>
  /\ note' = Plain("none")

\* A sheet key that takes the tile from the sheet current before the key.
KeyNumber_stale_index(n) ==
  LET idx == n - 1
  IN /\ IF idx < Len(palette_sheets)
          THEN /\ palette_index' = idx
               /\ selected_tile' = Some(TileRef(palette_index + 1, 1))
               /\ note' = Plain("sheet")
          ELSE /\ UNCHANGED << palette_index, selected_tile >>
               /\ note' = Plain("none")
     /\ UNCHANGED << disk, base_sheet, canvas_surface, palette_sheets,
                     canvas_selected_tile, canvas_selected_orig,
                     canvas_dragging, canvas_drag_mouse, grid_visible,
                     palette_scroll, running, win_size >>

\* KEYDOWN K_1 .. K_9 (n = 1 .. 9)
KeyNumber(n) ==
  LET idx == n - 1
  IN /\ IF idx < Len(palette_sheets)
          THEN /\ palette_index' = idx
               /\ selected_tile' = Some(TileRef(idx + 1, 1))
               /\ note' = Plain("sheet")
          ELSE /\ UNCHANGED << palette_index, selected_tile >>
               /\ note' = Plain("none")
     /\ UNCHANGED << disk, base_sheet, canvas_surface, palette_sheets,
                     canvas_selected_tile, canvas_selected_orig,
                     canvas_dragging, canvas_drag_mouse, grid_visible,
                     palette_scroll, running, win_size >>

\* KEYDOWN K_x with pygame.mouse.get_pos() = pos
KeyErase(pos) ==
  LET cell == get_canvas_cell_pos(pos[1], pos[2])
  IN /\ IF cell # None
          THEN /\ canvas_surface' = Some(clear_cell(Val(canvas_surface), cell[1], cell[2]))
               /\ note' = PlainAt("erase", pos)
          ELSE /\ UNCHANGED canvas_surface
               /\ note' = Plain("none")
     /\ UNCHANGED << disk, base_sheet, palette_sheets, palette_index,
                     selected_tile, canvas_selected_tile, canvas_selected_orig,
                     canvas_dragging, canvas_drag_mouse, grid_visible,
                     palette_scroll, running, win_size >>

\* A pointer-down whose place uses up the palette selection.
LeftDown_place_consumes(pos) ==
  LET mx == pos[1]
      my == pos[2]
      cell == get_canvas_cell_pos(mx, my)
  IN /\ IF canvas_surface # None /\ mx > Val(canvas_surface).w
          THEN \* palette region
               /\ selected_tile' = select_tile_from_palette_coords(mx, my).sel
               /\ UNCHANGED << canvas_surface, canvas_selected_tile,
                               canvas_selected_orig, canvas_dragging,
                               canvas_drag_mouse >>
               /\ note' = IF select_tile_from_palette_coords(mx, my).ret
                            THEN PlainAt("select", pos) ELSE Plain("none")
          ELSE IF cell = None
            THEN /\ UNCHANGED << canvas_surface, selected_tile,
                                 canvas_selected_tile, canvas_selected_orig,
                                 canvas_dragging, canvas_drag_mouse >>
                 /\ note' = Plain("none")
          ELSE IF is_surface_nonempty(
                    get_tile_surface_from_canvas(Val(canvas_surface), cell[1], cell[2]))
            THEN \* start dragging the tile under the pointer
                 /\ canvas_selected_tile' =
                      Some(get_tile_surface_from_canvas(Val(canvas_surface), cell[1], cell[2]))
                 /\ canvas_selected_orig' = cell
                 /\ canvas_dragging' = TRUE
                 /\ canvas_drag_mouse' = pos
                 /\ canvas_surface' = Some(clear_cell(Val(canvas_surface), cell[1], cell[2]))
                 /\ UNCHANGED selected_tile
                 /\ note' = IF canvas_dragging
                              THEN PlainAt("pickup", pos)
                              ELSE Note("pickup", Some(pos), canvas_surface, cell)
            ELSE \* empty cell: place the selected palette tile, if any
                 /\ canvas_surface' = place_tile_on_canvas(mx, my)
                 /\ selected_tile' = None
                 /\ UNCHANGED << canvas_selected_tile, canvas_selected_orig,
                                 canvas_dragging, canvas_drag_mouse >>
                 /\ note' = IF selected_tile = None
                              THEN Plain("none") ELSE PlainAt("place", pos)
     /\ UNCHANGED << disk, base_sheet, palette_sheets, palette_index,
                     grid_visible, palette_scroll, running, win_size >>

\* MOUSEBUTTONDOWN, button 1
LeftDown(pos) ==
  LET mx == pos[1]
      my == pos[2]
      cell == get_canvas_cell_pos(mx, my)
  IN /\ IF canvas_surface # None /\ mx > Val(canvas_surface).w
          THEN \* palette region
               /\ selected_tile' = select_tile_from_palette_coords(mx, my).sel
               /\ UNCHANGED << canvas_surface, canvas_selected_tile,
                               canvas_selected_orig, canvas_dragging,
                               canvas_drag_mouse >>
               /\ note' = IF select_tile_from_palette_coords(mx, my).ret
                            THEN PlainAt("select", pos) ELSE Plain("none")
          ELSE IF cell = None
            THEN /\ UNCHANGED << canvas_surface, selected_tile,
                                 canvas_selected_tile, canvas_selected_orig,
                                 canvas_dragging, canvas_drag_mouse >>
                 /\ note' = Plain("none")
          ELSE IF is_surface_nonempty(
                    get_tile_surface_from_canvas(Val(canvas_surface), cell[1], cell[2]))
            THEN \* start dragging the tile under the pointer
                 /\ canvas_selected_tile' =
                      Some(get_tile_surface_from_canvas(Val(canvas_surface), cell[1], cell[2]))
                 /\ canvas_selected_orig' = cell
                 /\ canvas_dragging' = TRUE
                 /\ canvas_drag_mouse' = pos
                 /\ canvas_surface' = Some(clear_cell(Val(canvas_surface), cell[1], cell[2]))
                 /\ UNCHANGED selected_tile
                 /\ note' = IF canvas_dragging
                              THEN PlainAt("pickup", pos)
                              ELSE Note("pickup", Some(pos), canvas_surface, cell)
            ELSE \* empty cell: place the selected palette tile, if any
                 /\ canvas_surface' = place_tile_on_canvas(mx, my)
                 /\ UNCHANGED << selected_tile, canvas_selected_tile,
                                 canvas_selected_orig, canvas_dragging,
                                 canvas_drag_mouse >>
                 /\ note' = IF selected_tile = None
                              THEN Plain("none") ELSE PlainAt("place", pos)
     /\ UNCHANGED << disk, base_sheet, palette_sheets, palette_index,
                     grid_visible, palette_scroll, running, win_size >>

\* A wheel-up without the floor at 0.
WheelUp_unfloored ==
  /\ palette_scroll' = palette_scroll - 1
  /\ UNCHANGED << disk, base_sheet, canvas_surface, palette_sheets,
                  palette_index, selected_tile, canvas_selected_tile,
                  canvas_selected_orig, canvas_dragging, canvas_drag_mouse,
                  grid_visible, running, win_size >>
  /\ note' = IF palette_scroll = 0 THEN Plain("wheelfloor") ELSE Plain("wheelup")

\* MOUSEBUTTONDOWN, button 4 (wheel up)
WheelUp ==
  /\ palette_scroll' = Max(0, palette_scroll - 1)
  /\ UNCHANGED << disk, base_sheet, canvas_surface, palette_sheets,
                  palette_index, selected_tile, canvas_selected_tile,
                  canvas_selected_orig, canvas_dragging, canvas_drag_mouse,
                  grid_visible, running, win_size >>
  /\ note' = IF palette_scroll = 0 THEN Plain("wheelfloor") ELSE Plain("wheelup")

\* MOUSEBUTTONDOWN, button 5 (wheel down)
WheelDown ==
  /\ palette_scroll < MaxScroll
  /\ palette_scroll' = palette_scroll + 1
  /\ UNCHANGED << disk, base_sheet, canvas_surface, palette_sheets,
                  palette_index, selected_tile, canvas_selected_tile,
                  canvas_selected_orig, canvas_dragging, canvas_drag_mouse,
                  grid_visible, running, win_size >>
  /\ note' = Plain("wheeldown")

\* MOUSEBUTTONDOWN
MouseButtonDown(button, pos) ==
  CASE button = 1 -> LeftDown(pos)
    [] button = 4 -> WheelUp
    [] button = 5 -> WheelDown
    [] OTHER -> UNCHANGED pvars /\ note' = Plain("none")

\* A pointer-move that records the position whether dragging or not.
MouseMotion_always(pos) ==
  /\ canvas_drag_mouse' = pos
  /\ note' = IF InCleanDrag
               THEN Note("motion", Some(pos), note.before, note.orig)
               ELSE PlainAt("motion", pos)
  /\ UNCHANGED << disk, base_sheet, canvas_surface, palette_sheets,
                  palette_index, selected_tile, canvas_selected_tile,
                  canvas_selected_orig, canvas_dragging, grid_visible,
                  palette_scroll, running, win_size >>

\* MOUSEMOTION
MouseMotion(pos) ==
  /\ IF canvas_dragging
       THEN /\ canvas_drag_mouse' = pos
            /\ note' = IF InCleanDrag
                         THEN Note("motion", Some(pos), note.before, note.orig)
                         ELSE PlainAt("motion", pos)
       ELSE /\ UNCHANGED canvas_drag_mouse
            /\ note' = Plain("none")
  /\ UNCHANGED << disk, base_sheet, canvas_surface, palette_sheets,
                  palette_index, selected_tile, canvas_selected_tile,
                  canvas_selected_orig, canvas_dragging, grid_visible,
                  palette_scroll, running, win_size >>

\* A drop that forgets to put the tile back when released off the canvas.
drop_dragged_tile_lost(pos) ==
  LET cell == get_canvas_cell_pos(pos[1], pos[2])
  IN IF cell # None
       THEN Some(BlitAll(Val(canvas_surface), Val(canvas_selected_tile), cell))
       ELSE canvas_surface

\* The drop of MOUSEBUTTONUP: the canvas after the dragged tile is blitted
\* at the cell under the pointer, or at its original cell when there is none.
drop_dragged_tile(pos) ==
  LET cell == get_canvas_cell_pos(pos[1], pos[2])
  IN IF cell # None
       THEN Some(BlitAll(Val(canvas_surface), Val(canvas_selected_tile), cell))
       ELSE Some(BlitAll(Val(canvas_surface), Val(canvas_selected_tile),
                         canvas_selected_orig))

\* A pointer-up that forgets to clear the origin of the drag.
MouseButtonUp_keeps_orig(button, pos) ==
  LET cell == get_canvas_cell_pos(pos[1], pos[2])
  IN /\ IF button = 1 /\ canvas_dragging
          THEN /\ canvas_surface' = drop_dragged_tile(pos)
               /\ canvas_selected_tile' = None
               /\ canvas_dragging' = FALSE
               /\ UNCHANGED canvas_selected_orig
               /\ note' = PlainAt(IF cell # None THEN "commit" ELSE "revert", pos)
          ELSE /\ UNCHANGED << canvas_surface, canvas_selected_tile,
                               canvas_selected_orig, canvas_dragging >>
               /\ note' = Plain("none")
     /\ UNCHANGED << disk, base_sheet, palette_sheets, palette_index,
                     selected_tile, canvas_drag_mouse, grid_visible,
                     palette_scroll, running, win_size >>

\* A pointer-up that clears the drag state only when released on a cell.
MouseButtonUp_outside_keeps(button, pos) ==
  LET cell == get_canvas_cell_pos(pos[1], pos[2])
  IN /\ IF button = 1 /\ canvas_dragging
          THEN /\ canvas_surface' = drop_dragged_tile(pos)
               /\ IF cell # None
                    THEN /\ canvas_selected_tile' = None
                         /\ canvas_selected_orig' = None
                         /\ canvas_dragging' = FALSE
                    ELSE UNCHANGED << canvas_selected_tile, canvas_selected_orig,
                                      canvas_dragging >>
               /\ note' = PlainAt(IF cell # None THEN "commit" ELSE "revert", pos)
          ELSE /\ UNCHANGED << canvas_surface, canvas_selected_tile,
                               canvas_selected_orig, canvas_dragging >>
               /\ note' = Plain("none")
     /\ UNCHANGED << disk, base_sheet, palette_sheets, palette_index,
                     selected_tile, canvas_drag_mouse, grid_visible,
                     palette_scroll, running, win_size >>

\* MOUSEBUTTONUP
MouseButtonUp(button, pos) ==
  LET cell == get_canvas_cell_pos(pos[1], pos[2])
  IN /\ IF button = 1 /\ canvas_dragging
          THEN /\ canvas_surface' = drop_dragged_tile(pos)
               /\ canvas_selected_tile' = None
               /\ canvas_selected_orig' = None
               /\ canvas_dragging' = FALSE
               /\ note' = LET kind == IF cell # None THEN "commit" ELSE "revert"
                          IN IF InCleanDrag
                               THEN Note(kind, Some(pos), note.before, note.orig)
                               ELSE PlainAt(kind, pos)
          ELSE /\ UNCHANGED << canvas_surface, canvas_selected_tile,
                               canvas_selected_orig, canvas_dragging >>
               /\ note' = Plain("none")
     /\ UNCHANGED << disk, base_sheet, palette_sheets, palette_index,
                     selected_tile, canvas_drag_mouse, grid_visible,
                     palette_scroll, running, win_size >>

\* Where the draw section puts the preview of the dragged tile: the cell
\* under the last pointer position, or that position snapped to the tile
\* grid when it is off the canvas.
draw_preview_pos ==
  LET mx == canvas_drag_mouse[1]
      my == canvas_drag_mouse[2]
      snap == get_canvas_cell_pos(mx, my)
  IN IF snap # None
       THEN snap
       ELSE << (mx \div TILE_SIZE) * TILE_SIZE, (my \div TILE_SIZE) * TILE_SIZE >>

\* A draw that blits the preview onto the canvas instead of the screen.
Draw_onto_canvas ==
  /\ IF canvas_dragging /\ canvas_selected_tile # None
       THEN canvas_surface' =
              Some(BlitAll(Val(canvas_surface), Val(canvas_selected_tile), draw_preview_pos))
       ELSE UNCHANGED canvas_surface
  /\ UNCHANGED << disk, base_sheet, palette_sheets, palette_index,
                  selected_tile, canvas_selected_tile, canvas_selected_orig,
                  canvas_dragging, canvas_drag_mouse, grid_visible,
                  palette_scroll, running, win_size >>
  /\ note' = Plain("draw")

\* The draw section of a frame: canvas, grid, preview of the dragged tile
\* (a copy of it, made translucent), palette and info text are drawn on
\* self.screen from the fields; no field is assigned.
Draw ==
  /\ UNCHANGED pvars
  /\ note' = Plain("draw")

\* ------------------------------------------------------------------ Next
\* One event of the loop in Composer.run, or the draw that ends a frame.
\* No handler reads self.running, so the quit event is taken as the last
\* one handled.  The handlers of
\* the wheel and of the other buttons do not read the pointer position.
Init == InitOn(DiskSmall)

Next ==
  /\ running
  /\ \/ \E choice \in OpenChoices : KeyOpenBase(choice)
     \/ \E paths \in AddChoices : KeyAddSheet(paths)
     \/ \E answer \in {"cancel", "saved", "failed"} : KeySave(answer)
     \/ KeyToggleGrid
     \/ KeyQuit
     \/ \E n \in 1 .. MaxSheets + 1 : KeyNumber(n)
     \/ \E pos \in CanvasPositions : KeyErase(pos)
     \/ \E pos \in ClickPositions : MouseButtonDown(1, pos)
     \/ \E button \in Buttons \ {1} : MouseButtonDown(button, <<0, 0>>)
     \/ \E pos \in CanvasPositions : MouseMotion(pos)
     \/ \E pos \in CanvasPositions : MouseButtonUp(1, pos)
     \/ MouseButtonUp(3, <<0, 0>>)
     \/ Draw

\* The whole event loop, on a one-cell base image and a one-tile sheet.
Spec == Init /\ [][Next]_vars

\* The canvas-editing events (open, add sheet, pointer down / move / up,
\* erase), on a two-cell base image with sparse and opaque content; the
\* palette is loaded once, from one file.
InitEdit == InitOn(DiskEdit)

NextEdit ==
  \/ \E choice \in OpenChoices : KeyOpenBase(choice)
  \/ \E f \in SheetFiles : palette_sheets = <<>> /\ KeyAddSheet(<<f>>)
  \/ \E pos \in CanvasPositions : KeyErase(pos)
  \/ \E pos \in ClickPositions : MouseButtonDown(1, pos)
  \/ MouseButtonDown(3, <<0, 0>>)
  \/ \E pos \in CanvasPositions : MouseMotion(pos)
  \/ \E pos \in CanvasPositions : MouseButtonUp(1, pos)
  \/ MouseButtonUp(3, <<0, 0>>)

SpecEdit == InitEdit /\ [][NextEdit]_vars

\* The palette events (open, add sheet, sheet keys, pointer down, wheel),
\* on a one-cell base image and a sheet of nine tiles.
InitPalette == InitOn(DiskPalette)

NextPalette ==
  \/ \E choice \in OpenChoices : KeyOpenBase(choice)
  \/ \E paths \in AddChoices : KeyAddSheet(paths)
  \/ \E n \in 1 .. MaxSheets + 1 : KeyNumber(n)
  \/ \E pos \in ClickPositions : MouseButtonDown(1, pos)
  \/ \E button \in Buttons \ {1} : MouseButtonDown(button, <<0, 0>>)

SpecPalette == InitPalette /\ [][NextPalette]_vars

\* Loading, saving, erasing and sheet keys on images of every explored
\* size: a base image and a sheet of the same w x h pixels; the palette is
\* loaded once.
InitSlice == \E w \in ImageSizes, h \in ImageSizes : InitOn(DiskSized(w, h))

NextSlice ==
  \/ \E choice \in OpenChoices : KeyOpenBase(choice)
  \/ \E f \in SheetFiles : palette_sheets = <<>> /\ KeyAddSheet(<<f>>)
  \/ \E n \in 1 .. 2 : KeyNumber(n)
  \/ \E answer \in {"cancel", "saved", "failed"} : KeySave(answer)
  \/ \E pos \in CanvasPositions : KeyErase(pos)

SpecSlice == InitSlice /\ [][NextSlice]_vars

\* Files the open-base dialog is explored with when a canvas is replaced:
\* the two-cell base image and the one-tile sheet, opened as a base.
ReopenChoices == { Some("base.png"), Some("tiles.png") }

\* Opening one base image over another, at any point of a drag.
InitReopen == InitOn(DiskEdit)

NextReopen ==
  \/ \E choice \in ReopenChoices : KeyOpenBase(choice)
  \/ \E pos \in CanvasPositions : MouseButtonDown(1, pos)
  \/ \E pos \in CanvasPositions : MouseMotion(pos)
  \/ \E pos \in CanvasPositions : MouseButtonUp(1, pos)

SpecReopen == InitReopen /\ [][NextReopen]_vars

\* =================================================================
\* Properties
\* =================================================================
\* The pixels of the tile-sized block of surface c at origin o, as a
\* function on (0 .. TILE_SIZE-1)^2; outside c the block is transparent.
CellPixels(c, o) ==
  [q \in (0 .. TILE_SIZE - 1) \X (0 .. TILE_SIZE - 1) |->
     IF <<o[1] + q[1], o[2] + q[2]>> \in DOMAIN c.px
       THEN c.px[<<o[1] + q[1], o[2] + q[2]>>]
       ELSE Transparent]

\* Pixels p and q lie in the same cell of the tile grid.
SameCell(p, q) ==
  /\ p[1] \div TILE_SIZE = q[1] \div TILE_SIZE
  /\ p[2] \div TILE_SIZE = q[2] \div TILE_SIZE

\* Pixel position p lies on canvas c.
OnCanvas(c, p) == p \in DOMAIN c.px

\* The block has no pixel of alpha > 0.
AllTransparent(block) == \A q \in DOMAIN block : block[q][4] = 0

\* The step's event, if it had a pointer position, had position pos (the
\* handlers record it in note; a step that did nothing records none).
HandledAt(pos) == note'.at = None \/ note'.at = Some(pos)

\* C1 (drag integrity): a drag that starts from Idle on a non-empty cell,
\* sees only pointer-moves and is released outside the canvas leaves the
\* canvas exactly as it was before the pointer-down.
C1_DragRevert ==
  (note.kind = "revert" /\ note.before # None) => canvas_surface = note.before

C1_Witness ==
  /\ note.kind = "revert" /\ note.before # None
  /\ ~SameCell(canvas_drag_mouse, note.orig)
  /\ \E p \in DOMAIN Val(canvas_surface).px : Val(canvas_surface).px[p][4] = 0

\* C2 (drag commit), as claimed: a drag from cell A released on a valid
\* cell B leaves, for A # B, A transparent and B holding exactly the pixels
\* A held; for A = B the content of A is what it was.
C2_DragCommit ==
  (note.kind = "commit" /\ note.before # None) =>
    LET c == Val(canvas_surface)
        b == Val(note.before)
        A == note.orig
        B == get_canvas_cell_pos(Val(note.at)[1], Val(note.at)[2])
    IN IF A # B
         THEN /\ AllTransparent(CellPixels(c, A))
              /\ CellPixels(c, B) = CellPixels(b, A)
         ELSE CellPixels(c, A) = CellPixels(b, A)

\* C3 (pick-up): from Idle, a left pointer-down on a canvas pixel whose
\* cell has a pixel of alpha > 0 enters Dragging holding a copy of the
\* cell, with that cell as origin and the cell cleared; any other left
\* pointer-down from Idle stays Idle.
C3_Pickup ==
  [][\A pos \in ClickPositions :
       (~canvas_dragging /\ HandledAt(pos) /\ LeftDown(pos)) =>
         IF /\ canvas_surface # None
            /\ OnCanvas(Val(canvas_surface), pos)
            /\ ~AllTransparent(CellPixels(Val(canvas_surface), get_canvas_cell_pos(pos[1], pos[2])))
           THEN /\ canvas_dragging'
                /\ canvas_selected_orig' \in DOMAIN Val(canvas_surface).px
                /\ SameCell(canvas_selected_orig', pos)
                /\ canvas_selected_orig'[1] % TILE_SIZE = 0
                /\ canvas_selected_orig'[2] % TILE_SIZE = 0
                /\ canvas_selected_tile' # None
                /\ Val(canvas_selected_tile').px =
                     CellPixels(Val(canvas_surface), canvas_selected_orig')
                /\ \A p \in DOMAIN Val(canvas_surface).px :
                     SameCell(p, pos) => Val(canvas_surface').px[p] = Transparent
           ELSE /\ ~canvas_dragging'
                /\ canvas_selected_tile' = None
                /\ canvas_selected_orig' = None
    ]_vars

C3_Witness ==
  /\ note.kind = "pickup" /\ note.before # None
  /\ canvas_dragging
  /\ canvas_selected_orig = << TILE_SIZE, 0 >>

\* C4 (direct place): from Idle, a left pointer-down on a canvas pixel
\* whose cell is empty writes the selected palette tile into the cell that
\* contains the pixel and changes no other pixel; with no tile selected the
\* canvas is unchanged; either way the editor stays Idle.
C4_DirectPlace ==
  [][\A pos \in ClickPositions :
       ( /\ ~canvas_dragging /\ HandledAt(pos) /\ LeftDown(pos)
         /\ canvas_surface # None
         /\ OnCanvas(Val(canvas_surface), pos)
         /\ AllTransparent(CellPixels(Val(canvas_surface),
               << (pos[1] \div TILE_SIZE) * TILE_SIZE, (pos[2] \div TILE_SIZE) * TILE_SIZE >>)) )
       => /\ ~canvas_dragging'
          /\ canvas_selected_tile' = None
          /\ IF selected_tile # None
               THEN \A p \in DOMAIN Val(canvas_surface).px :
                      Val(canvas_surface').px[p] =
                        IF SameCell(p, pos)
                          THEN TilePixels(Val(selected_tile)).px[<<p[1] % TILE_SIZE, p[2] % TILE_SIZE>>]
                          ELSE Val(canvas_surface).px[p]
               ELSE canvas_surface' = canvas_surface
    ]_vars

C4_Witness ==
  /\ note.kind = "place" /\ note.at = Some(<< 2 * TILE_SIZE - 1, TILE_SIZE - 1 >>)
  /\ ~canvas_dragging
  /\ CellPixels(Val(canvas_surface), << TILE_SIZE, 0 >>) = TilePixels(Val(selected_tile)).px
  /\ ~AllTransparent(CellPixels(Val(canvas_surface), << 0, 0 >>))

\* C5 (erase from Idle): the erase key with the pointer on a canvas pixel
\* makes the cell of that pixel fully transparent and changes no other
\* pixel, nor the palette selection, nor the drag state; with the pointer
\* off the canvas, or with no canvas, it changes nothing.
C5_EraseIdle ==
  [][\A pos \in CanvasPositions :
       (~canvas_dragging /\ HandledAt(pos) /\ KeyErase(pos)) =>
         IF canvas_surface # None /\ OnCanvas(Val(canvas_surface), pos)
           THEN /\ \A p \in DOMAIN Val(canvas_surface).px :
                     IF SameCell(p, pos)
                       THEN Val(canvas_surface').px[p][4] = 0
                       ELSE Val(canvas_surface').px[p] = Val(canvas_surface).px[p]
                /\ UNCHANGED << selected_tile, palette_index, canvas_dragging,
                                canvas_selected_tile, canvas_selected_orig >>
           ELSE UNCHANGED pvars
    ]_vars

C5_Witness ==
  /\ note.kind = "erase" /\ note.at = Some(<< TILE_SIZE - 1, TILE_SIZE - 1 >>)
  /\ ~canvas_dragging
  /\ AllTransparent(CellPixels(Val(canvas_surface), << 0, 0 >>))
  /\ ~AllTransparent(CellPixels(Val(canvas_surface), << TILE_SIZE, 0 >>))

\* C6 (erase while Dragging), as claimed: an erase key event received
\* while Dragging leaves the canvas, the held tile and the origin cell
\* unchanged.
C6_EraseDraggingNoEffect ==
  [][\A pos \in CanvasPositions :
       (canvas_dragging /\ HandledAt(pos) /\ KeyErase(pos)) =>
         UNCHANGED << canvas_surface, canvas_selected_tile, canvas_selected_orig >>
    ]_vars

\* C6, amended: an erase key event received while Dragging leaves the held
\* tile, the origin cell and the Dragging state unchanged; with the pointer
\* on a canvas pixel it makes the cell of that pixel fully transparent and
\* changes no other pixel, and with the pointer off the canvas it leaves
\* the canvas unchanged.
C6_EraseDragging ==
  [][\A pos \in CanvasPositions :
       (canvas_dragging /\ HandledAt(pos) /\ KeyErase(pos)) =>
         /\ UNCHANGED << canvas_selected_tile, canvas_selected_orig, canvas_dragging >>
         /\ IF canvas_surface # None /\ OnCanvas(Val(canvas_surface), pos)
              THEN \A p \in DOMAIN Val(canvas_surface).px :
                     IF SameCell(p, pos)
                       THEN Val(canvas_surface').px[p][4] = 0
                       ELSE Val(canvas_surface').px[p] = Val(canvas_surface).px[p]
              ELSE UNCHANGED canvas_surface
    ]_vars

C6_Witness ==
  /\ note.kind = "erase" /\ note.at = Some(<< 2 * TILE_SIZE - 1, TILE_SIZE - 1 >>)
  /\ canvas_dragging
  /\ canvas_selected_orig = << 0, 0 >>
  /\ \A p \in DOMAIN Val(canvas_surface).px : Val(canvas_surface).px[p][4] = 0

\* C7 (pointer-move): while Dragging a pointer-move changes the recorded
\* pointer position and nothing else; while Idle it changes nothing.
C7_PointerMove ==
  [][\A pos \in CanvasPositions :
       (HandledAt(pos) /\ MouseMotion(pos)) =>
         IF canvas_dragging
           THEN /\ canvas_drag_mouse' = pos
                /\ UNCHANGED << disk, base_sheet, canvas_surface, palette_sheets,
                                palette_index, selected_tile, canvas_selected_tile,
                                canvas_selected_orig, canvas_dragging, grid_visible,
                                palette_scroll, running, win_size >>
           ELSE UNCHANGED pvars
    ]_vars

C7_Witness ==
  /\ note.kind = "motion" /\ canvas_dragging
  /\ note.at = Some(canvas_drag_mouse)
  /\ ~OnCanvas(Val(canvas_surface), canvas_drag_mouse)
  /\ selected_tile # None
  /\ palette_scroll > 0

\* C8 (drag termination): a left pointer-up while Dragging ends Idle with
\* no held tile and no origin, wherever it is released; a left pointer-up
\* while Idle and a pointer-up of another button change nothing.
C8_DragTermination ==
  [][/\ \A pos \in CanvasPositions :
          (HandledAt(pos) /\ MouseButtonUp(1, pos)) =>
            IF canvas_dragging
              THEN /\ ~canvas_dragging'
                   /\ canvas_selected_tile' = None
                   /\ canvas_selected_orig' = None
              ELSE UNCHANGED pvars
     /\ MouseButtonUp(3, <<0, 0>>) => UNCHANGED pvars
    ]_vars

C8_Witness ==
  /\ note.kind = "revert" /\ note.at = Some(<< 0, CanvasH >>)
  /\ ~canvas_dragging
  /\ canvas_selected_tile = None
  /\ canvas_selected_orig = None

\* The number of tiles of the sheets before sheet s of the palette.
RECURSIVE TilesBefore(_)
TilesBefore(s) ==
  IF s <= 1 THEN 0 ELSE TilesBefore(s - 1) + Len(palette_sheets[s - 1].tiles)

\* The number of tiles of the palette.
TileCount == TilesBefore(Len(palette_sheets) + 1)

C10_ScrollFloor ==
  /\ [](palette_scroll \in Nat)
  /\ [][/\ WheelUp =>
             palette_scroll' = IF palette_scroll - 1 > 0 THEN palette_scroll - 1 ELSE 0
        /\ WheelDown => palette_scroll' = palette_scroll + 1
       ]_vars

C10_Witness ==
  /\ note.kind = "wheelfloor"
  /\ palette_scroll = 0

\* C11 (selection persists): a place, pick-up, pointer-move, drop, erase,
\* wheel or toggle-grid event leaves the selected palette tile as it was;
\* the selection changes only in a palette click that selects or in a
\* sheet key.
C11_SelectionPersists ==
  [][/\ note'.kind \in {"place", "pickup", "motion", "commit", "revert", "erase",
                        "wheelup", "wheelfloor", "wheeldown", "grid"}
          => selected_tile' = selected_tile
     /\ selected_tile' # selected_tile => note'.kind \in {"select", "sheet"}
    ]_vars

C11_Witness ==
  /\ note.kind = "place"
  /\ selected_tile # None
  /\ CellPixels(Val(canvas_surface), <<0, 0>>) = TilePixels(Val(selected_tile)).px

\* C12 (atomic failure of add-palette-sheet), as claimed: when any file of
\* an add-palette-sheet action fails to decode, the sheet list (and so the
\* combined tile list), the selection, the canvas and the drag state are
\* what they were before the action.
C12_AddSheetAtomic ==
  [][\A paths \in AddChoices :
       ((\E i \in 1 .. Len(paths) : disk[paths[i]] = None) /\ KeyAddSheet(paths)) =>
         UNCHANGED << palette_sheets, selected_tile, canvas_surface,
                      canvas_selected_tile, canvas_selected_orig,
                      canvas_dragging, canvas_drag_mouse >>
    ]_vars

\* C13 (atomic failure of open-base): when the file prompt is cancelled or
\* the chosen base image does not decode, the canvas, the palette, the
\* selection and the drag state (and every other field) are unchanged.
C13_OpenBaseAtomic ==
  [][\A choice \in OpenChoices :
       ((choice = None \/ disk[Val(choice)] = None) /\ KeyOpenBase(choice)) =>
         UNCHANGED pvars
    ]_vars

C13_Witness ==
  /\ note.kind = "openfail"
  /\ canvas_surface # None
  /\ canvas_dragging
  /\ canvas_selected_tile # None
  /\ selected_tile # None

\* Sheet sh holds what slicing the decoded image img with tile size t
\* should give: max(1, H div t) * max(1, W div t) tiles, the tile at
\* row * cols + col being the t x t block of img at (col * t, row * t),
\* transparent where the block leaves the image.
SlicedFrom(sh, img, t) ==
  LET cols == IF img.w \div t >= 1 THEN img.w \div t ELSE 1
      rows == IF img.h \div t >= 1 THEN img.h \div t ELSE 1
  IN /\ Len(sh.tiles) = rows * cols
     /\ Len(sh.tiles) >= 1
     /\ \A row \in 0 .. rows - 1, col \in 0 .. cols - 1 :
          LET tile == sh.tiles[row * cols + col + 1]
          IN /\ tile.w = t /\ tile.h = t
             /\ DOMAIN tile.px = (0 .. t - 1) \X (0 .. t - 1)
             /\ \A q \in DOMAIN tile.px :
                  tile.px[q] =
                    IF col * t + q[1] < img.w /\ row * t + q[2] < img.h
                      THEN img.px[<<col * t + q[1], row * t + q[2]>>]
                      ELSE Transparent

\* C14 (tile slicing): every loaded sheet, palette or base, holds exactly
\* max(1, H div t) * max(1, W div t) tiles of its W x H image, in
\* row-major order, each the t x t block at its grid origin with the
\* pixels outside the image transparent.
C14_TileSlicing ==
  /\ \A s \in 1 .. Len(palette_sheets) :
       SlicedFrom(palette_sheets[s], Val(disk[palette_sheets[s].path]), TILE_SIZE)
  /\ base_sheet # None =>
       SlicedFrom(Val(base_sheet), Val(disk[Val(base_sheet).path]), TILE_SIZE)

\* A sheet narrower than a tile and taller than two: one padded column,
\* two rows and a left-over strip.
C14_Witness ==
  /\ Len(palette_sheets) = 1
  /\ palette_sheets[1].width = TILE_SIZE - 1
  /\ palette_sheets[1].height = 2 * TILE_SIZE + 1
  /\ Len(palette_sheets[1].tiles) = 2

\* Pixel positions probed: from one pixel left of / above the canvas to
\* one pixel past its far edges.
ProbePositions == (-1 .. CanvasW + 1) \X (-1 .. CanvasH + 1)

\* C15 (cellAt): for a position (x, y) with 0 <= x < Wc and 0 <= y < Hc
\* the result is the tile-aligned origin of the cell that holds (x, y),
\* which is a pixel of the canvas; for any other position, and when no
\* canvas is open, it is None.
C15_CellAt ==
  \A p \in ProbePositions :
    LET r == get_canvas_cell_pos(p[1], p[2])
    IN IF /\ canvas_surface # None
          /\ 0 <= p[1] /\ p[1] < Val(canvas_surface).w
          /\ 0 <= p[2] /\ p[2] < Val(canvas_surface).h
         THEN /\ r # None
              /\ r[1] % TILE_SIZE = 0 /\ r[2] % TILE_SIZE = 0
              /\ r[1] <= p[1] /\ p[1] < r[1] + TILE_SIZE
              /\ r[2] <= p[2] /\ p[2] < r[2] + TILE_SIZE
              /\ r \in DOMAIN Val(canvas_surface).px
         ELSE r = None

\* An erase resolved a pixel of the second column of cells on a canvas
\* whose last column and last row of cells are cut short.
C15_Witness ==
  /\ note.kind = "erase" /\ note.at = Some(<< 2 * TILE_SIZE - 1, TILE_SIZE - 1 >>)
  /\ Val(canvas_surface).w = 2 * TILE_SIZE + 1
  /\ Val(canvas_surface).h = TILE_SIZE + 1
  /\ AllTransparent(CellPixels(Val(canvas_surface), << TILE_SIZE, 0 >>))

\* C16 (export after open): a save that directly follows a successful
\* open-base hands over a surface with the width, the height and the
\* pixels of the opened base image.
C16_ExportAfterOpen ==
  note.kind = "save_after_open" =>
    LET img == Val(disk[Val(base_sheet).path])
        out == Val(note.out)
    IN /\ out.w = img.w
       /\ out.h = img.h
       /\ out.px = img.px

\* The exported image is wider than two tiles and has translucent pixels
\* and coloured pixels of alpha 0.
C16_Witness ==
  /\ note.kind = "save_after_open"
  /\ Val(note.out).w = 2 * TILE_SIZE + 1
  /\ \E p \in DOMAIN Val(note.out).px : Val(note.out).px[p][4] = 128
  /\ \E p \in DOMAIN Val(note.out).px :
       Val(note.out).px[p][4] = 0 /\ Val(note.out).px[p] # Transparent

\* C17 (save never mutates): a save key event leaves every editor field
\* unchanged, whether it saves, is cancelled, fails in the encoder or
\* finds no canvas.
C17_SavePure ==
  [][\A answer \in {"cancel", "saved", "failed"} :
       KeySave(answer) => UNCHANGED pvars
    ]_vars

\* A save handed the canvas over in the middle of a drag.
C17_Witness ==
  /\ note.kind = "save"
  /\ canvas_dragging
  /\ canvas_selected_tile # None
  /\ selected_tile # None
  /\ palette_scroll > 0

\* C18 (pointer-down while Dragging), as claimed: a left pointer-down
\* received while Dragging leaves the canvas, the held tile and the origin
\* cell unchanged.
C18_DownWhileDraggingIgnored ==
  [][\A pos \in ClickPositions :
       (canvas_dragging /\ HandledAt(pos) /\ LeftDown(pos)) =>
         UNCHANGED << canvas_surface, canvas_selected_tile, canvas_selected_orig >>
    ]_vars

\* C19 (render purity): the draw of a frame changes neither the canvas,
\* nor the palette sheets, the selection, the scroll offset or the drag
\* state, nor any other field, in Idle and in Dragging.
C19_RenderPure ==
  [][Draw => UNCHANGED pvars]_vars

\* A frame was drawn while a tile was dragged over the canvas, with a
\* palette tile selected.
C19_Witness ==
  /\ note.kind = "draw"
  /\ canvas_dragging
  /\ canvas_selected_tile # None
  /\ get_canvas_cell_pos(canvas_drag_mouse[1], canvas_drag_mouse[2]) # None
  /\ selected_tile # None

\* C20 (selectFirstOfSheet): a sheet key N with N <= number of palette
\* sheets selects the first tile of sheet N, which exists and is the entry
\* of the combined tile list that follows the tiles of the sheets before
\* N; with N above the number of sheets nothing changes.
C20_SelectFirstOfSheet ==
  [][\A n \in 1 .. MaxSheets + 1 :
       KeyNumber(n) =>
         IF n <= Len(palette_sheets)
           THEN /\ Len(palette_sheets[n].tiles) >= 1
                /\ selected_tile' = Some([sheet |-> n, tile |-> 1])
                /\ selected_tile' = Some(CombinedTiles[TilesBefore(n) + 1])
           ELSE UNCHANGED pvars
    ]_vars

\* Key 2 selected the first tile of the second of two sheets.
C20_Witness ==
  /\ note.kind = "sheet"
  /\ Len(palette_sheets) = 2
  /\ palette_index = 1
  /\ selected_tile = Some(TileRef(2, 1))

\* C21 (addSheet): an add-palette-sheet whose files all decode keeps the
\* sheets it found, in place, and puts the new sheets after them in the
\* order of the files, each sliced from its file; so the combined tile
\* list is the old list followed by the new sheets' tiles in sheet and
\* row-major order, and the selected tile is the same entry as before.
C21_AddSheetAppends ==
  [][\A paths \in AddChoices :
       ( /\ paths # <<>>
         /\ \A i \in 1 .. Len(paths) : disk[paths[i]] # None
         /\ KeyAddSheet(paths) )
       => LET n == Len(palette_sheets)
              old == TilesFrom(palette_sheets, 1)
              new == TilesFrom(palette_sheets', 1)
              tail == Len(old) + 1 .. Len(new)
          IN /\ Len(palette_sheets') = n + Len(paths)
             /\ \A s \in 1 .. n : palette_sheets'[s] = palette_sheets[s]
             /\ \A k \in 1 .. Len(paths) :
                  /\ palette_sheets'[n + k].path = paths[k]
                  /\ SlicedFrom(palette_sheets'[n + k], Val(disk[paths[k]]), TILE_SIZE)
             /\ Len(new) >= Len(old)
             /\ SubSeq(new, 1, Len(old)) = old
             /\ { new[i] : i \in tail } =
                  UNION { { [sheet |-> n + k, tile |-> t] :
                              t \in 1 .. Len(palette_sheets'[n + k].tiles) } :
                          k \in 1 .. Len(paths) }
             /\ \A i \in tail, j \in tail :
                  i < j => \/ new[i].sheet < new[j].sheet
                           \/ new[i].sheet = new[j].sheet /\ new[i].tile < new[j].tile
             /\ selected_tile' = selected_tile
    ]_vars

\* A second sheet was added while a tile of the first one, not its first,
\* was selected.
C21_Witness ==
  /\ note.kind = "add"
  /\ Len(palette_sheets) = 2
  /\ selected_tile # None
  /\ Val(selected_tile).sheet = 1
  /\ Val(selected_tile).tile > 1

\* C22 (placement idempotence), as claimed: on every canvas, for the
\* selected tile and every canvas pixel, placing the tile at the pixel's
\* cell twice leaves the canvas that placing it once leaves.
C22_PlaceIdempotent ==
  (canvas_surface # None /\ selected_tile # None) =>
    \A p \in DOMAIN Val(canvas_surface).px :
      LET tile == TilePixels(Val(selected_tile))
          once == place_tile(Val(canvas_surface), tile, p[1], p[2])
      IN place_tile(once, tile, p[1], p[2]) = once

\* C23 (read / write round trip), as claimed: on every canvas, for the
\* cell of every canvas pixel, blitting the tile just read from the cell
\* back at the cell's origin leaves the canvas as it was.
C23_ReadWriteRoundTrip ==
  canvas_surface # None =>
    \A p \in DOMAIN Val(canvas_surface).px :
      LET c == Val(canvas_surface)
          cell == get_canvas_cell_pos(p[1], p[2])
      IN BlitAll(c, get_tile_surface_from_canvas(c, cell[1], cell[2]), cell) = c

\* C24 (drag-state consistency): in every reachable state the dragging
\* flag is set exactly when a held tile is present and exactly when an
\* origin cell is recorded.
C24_DragFieldsAgree ==
  /\ canvas_dragging <=> canvas_selected_tile # None
  /\ canvas_dragging <=> canvas_selected_orig # None

\* A tile that is not the base image's first cell is being dragged.
C24_Witness ==
  /\ canvas_dragging
  /\ canvas_selected_tile # None
  /\ canvas_selected_orig # None
  /\ note.kind = "pickup"
  /\ Val(canvas_selected_tile).px # CellPixels(Val(base_sheet).surface, <<0, 0>>)

\* Window position pos lies in rectangle r.
InRect(pos, r) ==
  /\ r.x <= pos[1] /\ pos[1] < r.x + r.w
  /\ r.y <= pos[2] /\ pos[2] < r.y + r.h

\* C25 (palette hit-test agrees with rendering), as claimed: whenever a
\* left click in the palette region selects a tile, the thumbnail of that
\* tile, as draw_palette lays it out, contains the click position.
C25_HitTestMatchesRender ==
  [][\A pos \in PalettePositions :
       ( /\ canvas_surface # None
         /\ HandledAt(pos) /\ LeftDown(pos)
         /\ select_tile_from_palette_coords(pos[1], pos[2]).ret )
       => \E i \in 0 .. Len(CombinedTiles) - 1 :
            /\ CombinedTiles[i + 1] = Val(selected_tile')
            /\ thumb_rect(i) # None
            /\ InRect(pos, Val(thumb_rect(i)))
    ]_vars

\* C26 (drag origin stays valid), as claimed: in every reachable state
\* where a tile is being dragged, the recorded origin is a tile-aligned
\* pixel of the current canvas.
C26_DragOriginValid ==
  canvas_dragging =>
    /\ canvas_surface # None
    /\ canvas_selected_orig # None
    /\ canvas_selected_orig \in DOMAIN Val(canvas_surface).px
    /\ canvas_selected_orig[1] % TILE_SIZE = 0
    /\ canvas_selected_orig[2] % TILE_SIZE = 0

====
